---- MODULE Spec2Model ----
(***************************************************************************)
(* Model of pyrate/linrate.py: linear_rate, the pixel-by-pixel iterative   *)
(* weighted least-squares rate estimation with one-at-a-time outlier       *)
(* rejection and the final maximum-sigma pass.                             *)
(*                                                                         *)
(* Numbers.  A float is modelled by an exact rational <<n, d>> with d > 0  *)
(* in lowest terms; numpy's nan is <<0, 0>>.  Rounding (float64 inside the *)
(* loop, float32 in the three output grids) is not modelled.               *)
(*                                                                         *)
(* Square roots.  The code takes square roots in three places: the         *)
(* Cholesky factors, the norm R of the QR factorisation, and               *)
(* err = sqrt(...).  The model carries the same quantities squared:        *)
(*   - a Cholesky factor T of V is carried as the pair (L, D) with         *)
(*     V = L D L', L unit lower triangular, so T = L sqrt(D);              *)
(*   - the cell error[i, j] holds err * err;                               *)
(*   - wr and maxr are carried as wr * wr and maxr * maxr.                 *)
(* All of them are non-negative, so every comparison of the code           *)
(* (maxr > nsig, wr == maxr, error > maxsig) is decided by the squares as  *)
(* long as nsig and maxsig are non-negative, which the inputs are.         *)
(***************************************************************************)
EXTENDS Integers, Sequences, FiniteSets, TLC

(***************************************************************************)
(* State.                                                                  *)
(*   ifgs, vcm, pthr, nsig, maxsig : the arguments of the call;            *)
(*   mst_arg : the caller's mask object (None, or the array the caller     *)
(*             still holds after the call);                                *)
(*   obs, span, mst, error, rate, samples, i, j, ind, v : the locals of    *)
(*             linear_rate of the same names;                              *)
(*   pc      : the position in linear_rate; exc the exception raised;      *)
(*   mst0, n0, iters : history.  mst0 is the caller's mask as it was at    *)
(*             the call, n0[i, j] the size of ind at line 52 and           *)
(*             iters[i, j] the number of passes through the loop body      *)
(*             (lines 58-110) at pixel (i, j).                             *)
(* A 2-d array is a function on the pairs <<i, j>>, 0-based; a stack of    *)
(* them (obs, mst) is a sequence of such arrays, one per interferogram.    *)
(***************************************************************************)
VARIABLES ifgs, vcm, pthr, nsig, maxsig, mst_arg,
          obs, span, mst, error, rate, samples, i, j, ind, v, pc, exc,
          mst0, n0, iters

(***************************************************************************)
(* Binding.  With(x, F) is F applied to x.  It is written with a set       *)
(* constructor so that TLC computes x once and hands F its value; a plain  *)
(* LET or operator argument is recomputed by TLC at every use.             *)
(***************************************************************************)
Only(S) == CHOOSE z \in S : TRUE

With(x, F(_)) == Only({F(a) : a \in {x}})

With2(x, y, F(_, _)) == Only({F(a, b) : a \in {x}, b \in {y}})

\* The sequence s itself, its entries computed once.
Vec(s) == s \o << >>

(***************************************************************************)
(* Exact rational arithmetic.                                              *)
(***************************************************************************)
nan == <<0, 0>>

isnan(x) == x[2] = 0

Abs(n) == With(n, LAMBDA a : IF a < 0 THEN 0 - a ELSE a)

RECURSIVE GCD(_, _)
GCD(x, y) == With2(x, y, LAMBDA a, b : IF b = 0 THEN a ELSE GCD(b, a % b))

Norm(n, d) ==
    With2(n, d, LAMBDA a, b :
      With(GCD(Abs(a), Abs(b)), LAMBDA g :
        IF b < 0 THEN << (0 - a) \div g, (0 - b) \div g >>
        ELSE << a \div g, b \div g >>))

Rat(n) == <<n, 1>>

Zero == Rat(0)

One == Rat(1)

\* The operands are reduced by their common factors before multiplying, so
\* that the intermediate products stay small.
RAdd(x, y) ==
    With2(x, y, LAMBDA a, b :
      With(GCD(a[2], b[2]), LAMBDA g :
        Norm(a[1] * (b[2] \div g) + b[1] * (a[2] \div g), a[2] * (b[2] \div g))))

RNeg(x) == With(x, LAMBDA a : << 0 - a[1], a[2] >>)

RSub(x, y) == RAdd(x, RNeg(y))

RMul(x, y) ==
    With2(x, y, LAMBDA a, b :
      With2(GCD(Abs(a[1]), b[2]), GCD(Abs(b[1]), a[2]), LAMBDA g1, g2 :
        Norm((a[1] \div g1) * (b[1] \div g2), (a[2] \div g2) * (b[2] \div g1))))

RInv(x) == With(x, LAMBDA a : Norm(a[2], a[1]))

RDiv(x, y) == RMul(x, RInv(y))

RSq(x) == With(x, LAMBDA a : RMul(a, a))

\* x > y on numbers; False when either side is nan, as in IEEE comparison.
RGt(x, y) ==
    With2(x, y, LAMBDA a, b :
      /\ ~isnan(a)
      /\ ~isnan(b)
      /\ With(GCD(a[2], b[2]), LAMBDA g :
           a[1] * (b[2] \div g) > b[1] * (a[2] \div g)))

RECURSIVE RSumTo(_, _)
RSumTo(s, n) ==
    With2(s, n, LAMBDA a, m : IF m = 0 THEN Zero ELSE RAdd(a[m], RSumTo(a, m - 1)))

RSum(s) == With(s, LAMBDA a : RSumTo(a, Len(a)))

RECURSIVE RMaxTo(_, _)
RMaxTo(s, n) ==
    With2(s, n, LAMBDA a, m :
      IF m = 1 THEN a[1]
      ELSE With(RMaxTo(a, m - 1), LAMBDA x : IF RGt(a[m], x) THEN a[m] ELSE x))

(***************************************************************************)
(* Linear algebra of the loop body.                                        *)
(***************************************************************************)
\* x[s] : numpy fancy indexing of a vector by the 0-based index array s.
Take(x, s) == With2(x, s, LAMBDA a, t : Vec([n \in 1..Len(t) |-> a[t[n] + 1]]))

\* m[:, s][s, :]
SubMatrix(m, s) ==
    With2(m, s, LAMBDA a, t :
      Vec([c \in 1..Len(t) |-> Vec([d \in 1..Len(t) |-> a[t[c] + 1][t[d] + 1]])]))

\* One column of the factorisation V = L D L'.  F holds the columns < q.
\* The pivot D[q] must be positive, else LAPACK potrf fails and scipy raises
\* LinAlgError.
RECURSIVE CholeskyFrom(_, _, _)
CholeskyFrom(V, q, F) ==
    IF q > Len(V) THEN F
    ELSE
      With(RSub(V[q][q], RSum(Vec([m \in 1..(q - 1) |-> RMul(RSq(F.L[q][m]), F.D[m])]))),
           LAMBDA dq :
        IF ~RGt(dq, Zero) THEN [F EXCEPT !.ok = FALSE]
        ELSE
          With(Vec([a \in 1..Len(V) |->
                     Vec([b \in 1..Len(V) |->
                            IF b # q THEN F.L[a][b]
                            ELSE IF a = q THEN One
                            ELSE IF a < q THEN Zero
                            ELSE RDiv(RSub(V[a][q],
                                           RSum(Vec([m \in 1..(q - 1) |->
                                                  RMul(RMul(F.L[a][m], F.L[q][m]), F.D[m])]))),
                                      dq)])]),
               LAMBDA newL :
            CholeskyFrom(V, q + 1, [ok |-> TRUE, L |-> newL, D |-> Append(F.D, dq)])))

\* cholesky(V, 1): the lower factor T = L sqrt(D), as [ok, L, D].  Only the
\* lower triangle of V is read.
cholesky(V) ==
    With(V, LAMBDA a :
      CholeskyFrom(a, 1,
        [ok |-> TRUE,
         L  |-> Vec([c \in 1..Len(a) |-> Vec([d \in 1..Len(a) |-> Zero])]),
         D  |-> << >>]))

\* Forward substitution with the unit lower triangular L: the x with L x = y.
RECURSIVE ForwardFrom(_, _, _)
ForwardFrom(L, y, x) ==
    IF Len(x) = Len(y) THEN x
    ELSE With(Len(x) + 1, LAMBDA a :
           With(Append(x, RSub(y[a], RSum(Vec([m \in 1..(a - 1) |-> RMul(L[a][m], x[m])])))),
                LAMBDA x1 : ForwardFrom(L, y, x1)))

\* solve(T, y') for T = L sqrt(D): entry a of the result is
\* solve(T, y)[a] / sqrt(T.D[a]); the division by sqrt(D[a]) is applied where
\* two such vectors are multiplied (WDot).
solve(T, y) == With2(T, y, LAMBDA F, a : ForwardFrom(F.L, a, << >>))

\* The inner product of two vectors whitened by solve(T, .).
WDot(T, x, y) ==
    With(T, LAMBDA F :
      With2(x, y, LAMBDA a, b :
        RSum(Vec([n \in 1..Len(a) |-> RDiv(RMul(a[n], b[n]), F.D[n])]))))

\* inv(V) of a symmetric positive definite V with factor T:
\* inv(V) = inv(L)' inv(D) inv(L).
inv(V) ==
    With(cholesky(V), LAMBDA T :
      With(Vec([c \in 1..Len(T.D) |->          \* Li[c] = column c of inv(L)
                  solve(T, Vec([n \in 1..Len(T.D) |-> IF n = c THEN One ELSE Zero]))]),
           LAMBDA Li :
        Vec([a \in 1..Len(T.D) |-> Vec([b \in 1..Len(T.D) |-> WDot(T, Li[a], Li[b])])])))

\* B.dot(M.dot(B')) for the 1 x k design matrix B.
Quad(B, M) ==
    With2(B, M, LAMBDA t, m :
      RSum(Vec([a \in 1..Len(t) |->
                  RMul(t[a], RSum(Vec([b \in 1..Len(t) |-> RMul(m[a][b], t[b])])))])))

vars == <<ifgs, vcm, pthr, nsig, maxsig, mst_arg,
          obs, span, mst, error, rate, samples, i, j, ind, v, pc, exc,
          mst0, n0, iters>>

inputs == <<ifgs, vcm, pthr, nsig, maxsig>>

None == << >>

IsNone(m) == DOMAIN m = {}

\* ifgs[0].phase_data.shape and len(ifgs)
Pixels == DOMAIN ifgs[1].phase_data

rows == Cardinality({p[1] : p \in Pixels})

cols == Cardinality({p[2] : p \in Pixels})

nifgs == Len(ifgs)

\* Mutant of UpdateMST: the whole mask is cleared.
UpdateMSTAll(m, o) == [n \in DOMAIN m |-> [p \in DOMAIN m[n] |-> 0]]

\* mst[isnan(obs)] = 0
UpdateMST(m, o) ==
    [n \in DOMAIN m |-> [p \in DOMAIN m[n] |-> IF isnan(o[n][p]) THEN 0 ELSE m[n][p]]]

\* ones((nifgs, rows, cols))
ones3 == [n \in 1..nifgs |-> [p \in Pixels |-> 1]]

\* Mutant of NanGrid: the grids start at zero.
ZeroGrid == [p \in Pixels |-> Zero]

\* ones([rows, cols], dtype=float32) * nan
NanGrid == [p \in Pixels |-> nan]

\* nonzero(mst[:, i, j] == 1)[0] : the 0-based indices, ascending.
Selected(m, p) == SelectSeq([n \in 1..Len(m) |-> n - 1], LAMBDA n : m[n + 1][p] = 1)

\* obs[:, i, j]
Column(o, p) == Vec([n \in 1..Len(o) |-> o[n][p]])

\* Mutant of delete: maxi is taken for the position before the one to drop,
\* so the next entry goes (the last one when maxi is the last position).
deleteNext(s, maxi) ==
    Vec([n \in 1..(Len(s) - 1) |->
           IF n <= maxi + 1 /\ maxi + 1 < Len(s) THEN s[n]
           ELSE IF maxi + 1 < Len(s) THEN s[n + 1]
           ELSE s[n]])

\* delete(ind, maxi) : the array without the entry at 0-based position maxi.
delete(s, maxi) ==
    Vec([n \in 1..(Len(s) - 1) |-> IF n <= maxi THEN s[n] ELSE s[n + 1]])

\* Mutant of LoopGuard: the loop runs one candidate too low.
LoopGuardLow(s, p) == Len(s) >= p - 1

\* while len(ind) >= pthr
LoopGuard(s, p) == Len(s) >= p

\* Mutant of Lstsq: the sign of R is dropped.
LstsqAbsR(T, A, b) == RNeg(RDiv(WDot(T, A, b), WDot(T, A, A)))

\* v = solve(R, z) with Q, R = qr(A), z = Q'.dot(b): for the k x 1 matrix A,
\* R * R = A'A and R * z = A'b, so v = A'b / A'A.
Lstsq(T, A, b) == RDiv(WDot(T, A, b), WDot(T, A, A))

\* r = (B * v) - ifgv
Residuals(B, vv, ifgv) ==
    With(vv, LAMBDA x : Vec([n \in 1..Len(B) |-> RSub(RMul(B[n], x), ifgv[n])]))

\* wr = abs(w * r.transpose()), squared.  w is the upper factor of inv(V),
\* i.e. the transpose of its lower factor W: w[a][b] = W.L[b][a] sqrt(W.D[a])
\* for b >= a and 0 below the diagonal.  `*' is the elementwise product of
\* the k x k array w with the k x 1 array r', which numpy broadcasts along
\* the columns: wr[a][b] = |w[a][b] * r[a]|.
WrSq(W, r) ==
    With2(W, r, LAMBDA F, x :
      Vec([a \in 1..Len(x) |->
             Vec([b \in 1..Len(x) |->
                    IF b >= a THEN RMul(RMul(F.D[a], RSq(F.L[b][a])), RSq(x[a]))
                    ELSE Zero])]))

\* diag(wr).max()
MaxDiag(wr) == With(wr, LAMBDA x : RMaxTo(Vec([a \in 1..Len(x) |-> x[a][a]]), Len(x)))

\* nonzero(wr == maxr)[0][0] : the row of the first entry of wr, in row-major
\* order, that equals maxr (0-based).
FirstRowEqual(wr, maxr) ==
    (CHOOSE a \in 1..Len(wr) :
        /\ \E b \in 1..Len(wr) : wr[a][b] = maxr
        /\ \A c \in 1..(a - 1) : \A b \in 1..Len(wr) : wr[c][b] # maxr) - 1

\* Lines 86-100 of the loop body, once the rate vv is known.
BodyRest(ifgv, B, V, vv) ==
    With(inv(V), LAMBDA M :
      With(WrSq(cholesky(M), Residuals(B, vv, ifgv)), LAMBDA wr :
        With(MaxDiag(wr), LAMBDA maxr :
          [raises |-> "", v |-> vv, err |-> RInv(Quad(B, M)), wr |-> wr,
           maxr |-> maxr, maxi |-> FirstRowEqual(wr, maxr), k |-> Len(B)])))

\* Lines 71-83 of the loop body.  raises is the exception of the first call
\* that fails:
\*   cholesky(V, 1)      LinAlgError when V is not positive definite;
\*   solve(T, ifgv')     ValueError when ifgv holds a nan (check_finite);
\*   solve(R, z)         LinAlgError when R is singular (A = 0).
BodySolve(ifgv, B, V) ==
    With(cholesky(V), LAMBDA T :
      IF ~T.ok THEN [raises |-> "LinAlgError"]
      ELSE IF \E n \in 1..Len(ifgv) : isnan(ifgv[n]) THEN [raises |-> "ValueError"]
      ELSE With2(solve(T, B), solve(T, ifgv), LAMBDA A, b :
             IF WDot(T, A, A) = Zero THEN [raises |-> "LinAlgError"]
             ELSE With(Lstsq(T, A, b), LAMBDA vv : BodyRest(ifgv, B, V, vv))))

\* One pass through the loop body, lines 60-100, for the index array s at
\* pixel p.
Body(s, p) ==
    With2(Take(Column(obs, p), s), Take(span, s), LAMBDA ifgv, B :
      With(SubMatrix(vcm, s), LAMBDA V : BodySolve(ifgv, B, V)))

\* rate[error > maxsig] = nan ; error[error > maxsig] = nan ;
\* samples[error > maxsig] = nan -- three statements, each mask computed from
\* the error array as it is when the statement runs.
Exceeds(e, ms) == [p \in DOMAIN e |-> RGt(e[p], RSq(ms))]

MaskedNan(a, mask) == [p \in DOMAIN a |-> IF mask[p] THEN nan ELSE a[p]]

PostPass(r, e, s, ms) ==
    LET r1 == MaskedNan(r, Exceeds(e, ms))
        e1 == MaskedNan(e, Exceeds(e, ms))
        s1 == MaskedNan(s, Exceeds(e1, ms))
    IN  [rate |-> r1, error |-> e1, samples |-> s1]

(***************************************************************************)
(* The calls explored.                                                     *)
(***************************************************************************)
\* Observation values are nan or an integer in 0..MaxObs.
MaxObs == 2

\* pthr ranges over 2..MaxPthr.
MaxPthr == 3

ObsVals == {nan} \cup {Rat(n) : n \in 0..MaxObs}

Columns3 == [1..3 -> ObsVals]

RatSeq(s) == [n \in 1..Len(s) |-> Rat(s[n])]

Identity(k) == [a \in 1..k |-> [b \in 1..k |-> IF a = b THEN One ELSE Zero]]

RatMatrix(m) == [a \in 1..Len(m) |-> RatSeq(m[a])]

\* The pixels of a 1 x n grid ("row") or an n x 1 grid ("col"), row-major.
Pixel(shape, m) == IF shape = "row" THEN <<0, m>> ELSE <<m, 0>>

\* The interferograms with time spans sp whose pixel m holds the
\* observations pixcols[m + 1].
MkIfgs(sp, pixcols, shape) ==
    [n \in 1..Len(sp) |->
       [phase_data |-> [p \in {Pixel(shape, m) : m \in 0..(Len(pixcols) - 1)} |->
                           pixcols[(IF shape = "row" THEN p[2] ELSE p[1]) + 1][n]],
        time_span  |-> sp[n]]]

AllMasks(k, P) == [1..k -> [P -> {0, 1}]]

Third == <<1, 3>>

Tenth == <<1, 10>>

Clean3 == RatSeq(<<2, 4, 6>>)

AllNan3 == <<nan, nan, nan>>

Pairs3(reps) ==
    {<<c, q>> : c \in Columns3, q \in reps} \cup {<<q, c>> : c \in Columns3, q \in reps}

\* A diagonal VCM, one with off-diagonal entries, both positive definite, and
\* a symmetric one that is not: its leading 2 x 2 block is indefinite, the
\* blocks on {0, 2} and {1, 2} are positive definite.
DiagVcm == RatMatrix(<< <<1, 0, 0>>, <<0, 4, 0>>, <<0, 0, 1>> >>)

OffDiagVcm == RatMatrix(<< <<3, 0, 1>>, <<0, 2, 1>>, <<1, 1, 1>> >>)

NotPosDefVcm == RatMatrix(<< <<1, 2, 0>>, <<2, 1, 0>>, <<0, 0, 1>> >>)

Span3 == RatSeq(<<1, 2, 3>>)

OnesMask(k, P) == [n \in 1..k |-> [p \in P |-> 1]]

RowPixels == {<<0, 0>>, <<0, 1>>}

ColPixels == {<<0, 0>>, <<1, 0>>}

\* Every column of observations at one pixel, identity VCM.
DataCalls ==
    [ifgs   : {MkIfgs(Span3, pc2, "row") : pc2 \in Pairs3({AllNan3, Clean3})},
     vcm    : {Identity(3)},
     pthr   : 2..MaxPthr,
     nsig   : {One},
     maxsig : {Third},
     mst    : {None, OnesMask(3, RowPixels)}]

\* Every mask over a grid with and without missing observations.
MaskCalls ==
    [ifgs   : {MkIfgs(Span3, pc2, "row") :
                 pc2 \in {<< <<Rat(0), Rat(2), nan>>, Clean3 >>,
                          << RatSeq(<<1, 2, 0>>), RatSeq(<<0, 2, 1>>) >>}},
     vcm    : {Identity(3)},
     pthr   : 2..MaxPthr,
     nsig   : {One},
     maxsig : {Third},
     mst    : AllMasks(3, RowPixels)]

\* Other covariance matrices and time spans.
CovCalls ==
    [ifgs   : {MkIfgs(sp, <<c, Clean3>>, "row") :
                 sp \in {Span3, RatSeq(<<1, 1, 2>>), RatSeq(<<0, 0, 1>>)},
                 c \in Columns3},
     vcm    : {Identity(3), DiagVcm, OffDiagVcm, NotPosDefVcm},
     pthr   : {2},
     nsig   : {One},
     maxsig : {Third},
     mst    : {None,
               << (<<0, 0>> :> 1 @@ <<0, 1>> :> 1),
                  (<<0, 0>> :> 1 @@ <<0, 1>> :> 0),
                  (<<0, 0>> :> 0 @@ <<0, 1>> :> 1) >>}]

\* Five interferograms, time spans 1..5, identity VCM, observations 2 t with
\* the one at index 3 set to 100, on a 2 x 1 grid beside a second pixel.
Outlier5 == RatSeq(<<2, 4, 6, 100, 10>>)

\* A mask that selects every interferogram at pixel (1, 0) and only the
\* first two at pixel (0, 0).
FirstTwoMask ==
    [n \in 1..5 |-> (<<0, 0>> :> (IF n <= 2 THEN 1 ELSE 0) @@ <<1, 0>> :> 1)]

ScenarioCalls ==
    [ifgs   : {MkIfgs(RatSeq(<<1, 2, 3, 4, 5>>), pc2, "col") :
                 pc2 \in {<<Outlier5, q>> : q \in {RatSeq(<<2, 4, 6, 8, 10>>),
                                                   RatSeq(<<0, 0, 9, 0, 0>>),
                                                   <<nan, nan, nan, nan, nan>>}}
                     \cup {<<RatSeq(<<0, 0, 9, 0, 0>>), Outlier5>>}},
     vcm    : {Identity(5)},
     pthr   : {3},
     nsig   : {Rat(3)},
     maxsig : {Tenth, One},
     mst    : {None, OnesMask(5, ColPixels), FirstTwoMask}]

Calls == DataCalls \cup MaskCalls \cup CovCalls \cup ScenarioCalls

(***************************************************************************)
(* linear_rate.                                                            *)
(***************************************************************************)
Init ==
    /\ \E c \in Calls :
         /\ ifgs = c.ifgs
         /\ vcm = c.vcm
         /\ pthr = c.pthr
         /\ nsig = c.nsig
         /\ maxsig = c.maxsig
         /\ mst_arg = c.mst
         /\ mst0 = c.mst
    /\ obs = << >>
    /\ span = << >>
    /\ mst = None
    /\ error = << >>
    /\ rate = << >>
    /\ samples = << >>
    /\ i = 0
    /\ j = 0
    /\ ind = << >>
    /\ v = nan
    /\ pc = "call"
    /\ exc = ""
    /\ n0 = [p \in Pixels |-> 0]
    /\ iters = [p \in Pixels |-> 0]

\* Lines 26-42: the observation block, the mask, the three nan grids.
Setup ==
    /\ pc = "call"
    /\ obs' = [n \in 1..nifgs |-> ifgs[n].phase_data]
    /\ span' = [n \in 1..nifgs |-> ifgs[n].time_span]
    /\ IF ~IsNone(mst_arg)
         THEN /\ mst_arg' = UpdateMST(mst_arg, obs')
              /\ mst' = mst_arg'
         ELSE /\ mst' = ones3
              /\ UNCHANGED mst_arg
    /\ error' = NanGrid
    /\ rate' = NanGrid
    /\ samples' = NanGrid
    /\ i' = 0
    /\ j' = 0
    /\ pc' = "for"
    /\ UNCHANGED <<inputs, ind, v, exc, mst0, n0, iters>>

\* Line 52: the candidate indices of pixel (i, j).
SelectInd ==
    /\ pc = "for"
    /\ ind' = Selected(mst, <<i, j>>)
    /\ n0' = [n0 EXCEPT ![<<i, j>>] = Len(ind')]
    /\ pc' = "while"
    /\ UNCHANGED <<inputs, mst_arg, obs, span, mst, error, rate, samples, i, j, v,
                   exc, mst0, iters>>

\* The for loops of lines 45 and 50 moving to the next pixel, or past the last.
NextPixel ==
    IF j + 1 < cols THEN /\ j' = j + 1
                         /\ i' = i
                         /\ pc' = "for"
    ELSE IF i + 1 < rows THEN /\ i' = i + 1
                              /\ j' = 0
                              /\ pc' = "for"
    ELSE /\ pc' = "post"
         /\ UNCHANGED <<i, j>>

\* Line 57, the condition false: the pixel keeps its nan cells.
LoopExit ==
    /\ pc = "while"
    /\ ~LoopGuard(ind, pthr)
    /\ NextPixel
    /\ UNCHANGED <<inputs, mst_arg, obs, span, mst, error, rate, samples, ind, v,
                   exc, mst0, n0, iters>>

\* Lines 57-100 with an exception raised in the body: nothing catches it, so
\* it leaves linear_rate and no grid is returned.
Raise(res) ==
    /\ res.raises # ""
    /\ exc' = res.raises
    /\ pc' = "raised"
    /\ UNCHANGED <<error, rate, samples, i, j, ind, v>>

\* Lines 57-104: maxr > nsig, the entry at position maxi is discarded.
Reject(res) ==
    /\ res.raises = ""
    /\ RGt(res.maxr, RSq(nsig))
    /\ ind' = delete(ind, res.maxi)
    /\ v' = res.v
    /\ UNCHANGED <<error, rate, samples, i, j, pc, exc>>

\* Lines 57-110: the estimate is saved and the loop left by break.
Converge(res) ==
    /\ res.raises = ""
    /\ ~RGt(res.maxr, RSq(nsig))
    /\ rate' = [rate EXCEPT ![<<i, j>>] = res.v]
    /\ error' = [error EXCEPT ![<<i, j>>] = res.err]
    /\ samples' = [samples EXCEPT ![<<i, j>>] = Rat(res.k)]
    /\ v' = res.v
    /\ NextPixel
    /\ UNCHANGED <<ind, exc>>

\* Line 57, the condition true: one pass through the loop body.
Iterate ==
    /\ pc = "while"
    /\ LoopGuard(ind, pthr)
    /\ \E res \in {Body(ind, <<i, j>>)} :
         \/ Raise(res)
         \/ Reject(res)
         \/ Converge(res)
    /\ iters' = [iters EXCEPT ![<<i, j>>] = @ + 1]
    /\ UNCHANGED <<inputs, mst_arg, obs, span, mst, mst0, n0>>

\* Lines 112-117: the maximum-sigma pass and the return.
Return ==
    /\ pc = "post"
    /\ \E out \in {PostPass(rate, error, samples, maxsig)} :
         /\ rate' = out.rate
         /\ error' = out.error
         /\ samples' = out.samples
    /\ pc' = "done"
    /\ UNCHANGED <<inputs, mst_arg, obs, span, mst, i, j, ind, v, exc, mst0, n0, iters>>

Next == Setup \/ SelectInd \/ LoopExit \/ Iterate \/ Return

Spec == Init /\ [][Next]_vars

(***************************************************************************)
(* Properties.                                                             *)
(***************************************************************************)
\* The pixel whose loop is running, and the observation, time span and
\* covariance subsets the loop body works on.
Here == <<i, j>>

AllNan(p) == isnan(rate[p]) /\ isnan(error[p]) /\ isnan(samples[p])

NoneNan(p) == ~isnan(rate[p]) /\ ~isnan(error[p]) /\ ~isnan(samples[p])

\* A step that is one pass through the loop body without an exception.
BodyStep == pc = "while" /\ iters' # iters /\ pc' # "raised"

\* A step that discards an observation.
RejectStep == BodyStep /\ pc' = "while"

\* C1: in the final pass every pixel whose converged standard error exceeds
\* maxsig gets rate, error and samples all set to nan.
C1_PostFilter ==
    [][(pc = "post" /\ pc' = "done") =>
         \A p \in Pixels :
            RGt(error[p], RSq(maxsig)) =>
               isnan(rate'[p]) /\ isnan(error'[p]) /\ isnan(samples'[p])]_vars

\* C2: in the returned grids every pixel is all-or-nothing: rate, error and
\* samples are all numbers or all nan.
C2_AllOrNothing == pc = "done" => \A p \in Pixels : AllNan(p) \/ NoneNan(p)

\* C3: an interferogram whose observation at the pixel is nan is never in the
\* pixel's candidate index set, with a mask supplied or not.
C3_MissingNeverCandidate ==
    pc = "while" => \A n \in 1..Len(ind) : ~isnan(obs[ind[n] + 1][Here])

\* C4: a fatal numerical error at one pixel (covariance subset not positive
\* definite, singular system) does not end the run for the other pixels.
C4_PixelIsolation == ~(pc = "raised" /\ exc = "LinAlgError")

\* C5: a pixel that starts with n >= pthr candidates makes at most
\* n - pthr + 1 passes through the loop body, and every rejecting pass
\* shortens the candidate array by exactly one.
C5_LoopBound ==
    [][/\ \A p \in Pixels : n0'[p] >= pthr => iters'[p] <= n0'[p] - pthr + 1
       /\ RejectStep => Len(ind') = Len(ind) - 1]_vars

\* C5 witness: a pixel used all n - pthr + 1 passes, rejecting in each, and
\* ended without a result.
C5_Witness ==
    /\ pc = "done"
    /\ \E p \in Pixels :
          /\ n0[p] > pthr
          /\ iters[p] = n0[p] - pthr + 1
          /\ AllNan(p)

\* C6: a pixel whose mask selects fewer than pthr observations never enters
\* the loop body, and its three cells are nan in the returned grids.
C6_TooFewSelected ==
    \A p \in Pixels :
       n0[p] < pthr => /\ iters[p] = 0
                       /\ pc = "done" => AllNan(p)

\* C6 witness: a returned grid with a pixel that had some, but too few,
\* selected observations beside a pixel with a result.
C6_Witness ==
    /\ pc = "done"
    /\ \E p, q \in Pixels : n0[p] > 0 /\ n0[p] < pthr /\ NoneNan(q)

\* The loop body runs on exactly two observations with identity covariance
\* and distinct time spans.
TwoPoint ==
    /\ Len(ind) = 2
    /\ SubMatrix(vcm, ind) = Identity(2)
    /\ span[ind[1] + 1] # span[ind[2] + 1]

T1 == span[ind[1] + 1]

T2 == span[ind[2] + 1]

Y1 == obs[ind[1] + 1][Here]

Y2 == obs[ind[2] + 1][Here]

\* C7 as stated: on two observations with identity covariance the rate is
\* the two-point slope (y2 - y1) / (t2 - t1).
C7_TwoPointSlope ==
    [][(BodyStep /\ TwoPoint) => v' = RDiv(RSub(Y2, Y1), RSub(T2, T1))]_vars

\* C7 amended: on two observations with identity covariance and distinct time
\* spans the rate is the least-squares slope of the line through the origin,
\* (t1 y1 + t2 y2) / (t1 t1 + t2 t2).
C7_ThroughOriginSlope ==
    [][(BodyStep /\ TwoPoint) =>
         v' = RDiv(RAdd(RMul(T1, Y1), RMul(T2, Y2)), RAdd(RSq(T1), RSq(T2)))]_vars

\* C7 witness: the last pixel converged on two observations with identity
\* covariance and distinct time spans, at a rate that is not the two-point
\* slope.
C7_Witness ==
    /\ pc = "post"
    /\ TwoPoint
    /\ samples[Here] = Rat(2)
    /\ rate[Here] = v
    /\ v # RDiv(RSub(Y2, Y1), RSub(T2, T1))

\* The scenario of C8 at pixel p: five interferograms, time spans 1..5,
\* identity covariance, observations 2 t with index 3 set to 100, nsig = 3,
\* pthr = 3, all five selected.
Scenario(p) ==
    /\ span = RatSeq(<<1, 2, 3, 4, 5>>)
    /\ vcm = Identity(5)
    /\ Column(obs, p) = Outlier5
    /\ nsig = Rat(3)
    /\ pthr = 3
    /\ n0[p] = 5

\* C8: in the scenario the loop discards index 3 and nothing else, then
\* converges with rate 2 on the 4 remaining observations.
C8_OutlierScenario ==
    [][(pc = "while" /\ pc' # "while" /\ Scenario(Here)) =>
         /\ ind = <<0, 1, 2, 4>>
         /\ iters'[Here] = 2
         /\ rate'[Here] = Rat(2)
         /\ samples'[Here] = Rat(4)]_vars

\* C8 witness: the scenario pixel is returned with its result.
C8_Witness ==
    /\ pc = "done"
    /\ \E p \in Pixels : Scenario(p) /\ rate[p] = Rat(2) /\ samples[p] = Rat(4)

FirstArgMax(res) ==
    (CHOOSE a \in 1..res.k :
        /\ res.wr[a][a] = res.maxr
        /\ \A c \in 1..(a - 1) : res.wr[c][c] # res.maxr) - 1

\* C10: every rejecting pass discards the position whose whitened residual
\* equals maxr, the lowest such position on ties.
C10_RejectsArgMax ==
    [][RejectStep =>
         ind' = With(Body(ind, Here), LAMBDA res : delete(ind, FirstArgMax(res)))]_vars

====
